---- MODULE Spec2Model ----
(***************************************************************************)
(* queuectl: the job lifecycle engine of src/queuctl1 (storage.py, the     *)
(* worker loop of worker.py, the admin commands of cli.py).                *)
(*                                                                         *)
(* The store is SQLite opened with isolation_level=None (storage.py:58):   *)
(* every db.execute is its own committed statement, and only the           *)
(* BEGIN IMMEDIATE .. COMMIT block of claim_next_job is a transaction.     *)
(* One action of this module is one statement (or that one transaction),   *)
(* so that the interleavings of several worker processes and of the CLI    *)
(* are the ones the code allows.                                           *)
(*                                                                         *)
(* Timestamps are whole seconds (storage.py:52 drops the microseconds);    *)
(* the ISO-8601 "Z" strings the code stores compare as the seconds they    *)
(* denote, so they are modelled by the integer second.  updated_at,        *)
(* failed_at and the workers table are written by the code but read by no  *)
(* decision of it; they are not part of the state here.                    *)
(*                                                                         *)
(* Spec is the store with one job id, two workers and the admin commands.  *)
(* FifoSpec has two job ids (the order of claims), SignalSpec termination  *)
(* signals, LiveSpec a batch of succeeding jobs under fair scheduling,     *)
(* FaultSpec a store that can stay locked, StartSpec the start-up with     *)
(* init as written.                                                        *)
(***************************************************************************)
EXTENDS Integers, FiniteSets, Sequences, TLC

\* ---------------------------------------------------------------- bounds
MaxTime == 2

Workers == {"w1", "w2"}

\* the inputs of the CLI commands
Ids == {"j1"}
Commands == {"echo hi"}
RetryChoices == {0, 2}
BackoffBases == {1, 2}

\* SQL NULL in the integer column next_attempt_at
NULL == -1

VARIABLES
    jobs,            \* table jobs: id -> row           (storage.py:19-29)
    dlq,             \* table dlq: id -> row            (storage.py:30-37)
    config,          \* table config, the two keys the core reads
    timing_cols,     \* does table jobs have the columns worker.py:63 writes
    now,             \* the wall clock, in seconds
    pc,              \* per worker: its place in run_worker
    job,             \* per worker: the dict claim_next_job returned
    rc,              \* per worker: the Runner's outcome of this attempt
    base,            \* per worker: backoff_base as read by get_config
    ctx,             \* per worker: update_job_failure called from try / except
    should_exit,     \* per worker process: its _SHOULD_EXIT flag
    adm,             \* the CLI's dlq_retry in progress
    runs             \* per id ever inserted into jobs: the Runner invocations
                     \* since its latest INSERT (kept for the claims; the
                     \* code does not store it)

vars == <<jobs, dlq, config, timing_cols, now, pc, job, rc, base, ctx,
          should_exit, adm, runs>>

NoJob == [id |-> "none"]
AdmIdle == [pc |-> "idle"]

\* ------------------------------------------------------------ pure parts

\* backoff_base ** attempts                                (storage.py:188)
RECURSIVE Pow(_, _)
Pow(b, e) == IF e <= 0 THEN 1 ELSE b * Pow(b, e - 1)

\* the delay computed from the count before the increment
NextAttemptAtPre(n, b, attempts) == n + Pow(b, attempts - 1)

\* delay = backoff_base ** attempts; next_ts = int(time.time() + delay), with
\* attempts the incremented count                        (storage.py:188-189)
NextAttemptAt(n, b, attempts) == n + Pow(b, attempts)

\* Eligible without the cooldown test on next_attempt_at
EligibleNoCooldown(row, n) == row.state \in {"pending", "failed"}

\* the WHERE clause of claim_next_job                  (storage.py:127-128)
Eligible(row, n) ==
    \/ row.state = "pending"
    \/ /\ row.state = "failed"
       /\ (row.next_attempt_at = NULL \/ row.next_attempt_at <= n)

\* the SELECT without its ORDER BY: any eligible row
AnyEligible(n) == {i \in DOMAIN jobs : Eligible(jobs[i], n)}

\* ORDER BY created_at LIMIT 1: the rows the SELECT may return. SQL leaves
\* the order among equal created_at open.                (storage.py:129-130)
FirstEligible(n) ==
    LET cand == {i \in DOMAIN jobs : Eligible(jobs[i], n)}
    IN  {i \in cand : \A o \in cand : jobs[i].created_at <= jobs[o].created_at}

\* the row enqueue and dlq_retry insert       (storage.py:100-104, 219-223)
NewRow(cmd, mr, n) ==
    [command |-> cmd, state |-> "pending", attempts |-> 0, max_retries |-> mr,
     created_at |-> n, next_attempt_at |-> NULL, last_error |-> "NULL"]

\* attempts > max_retries after attempts += 1          (storage.py:174-176)
Exhausted(attempts, max_retries) == attempts + 1 > max_retries

\* the guard before move_to_dlq                              (worker.py:80)
EarlyDlq(j) == j.attempts + 1 >= j.max_retries

EmptyTable == [i \in {} |-> NoJob]
Delete(tbl, id) == [i \in DOMAIN tbl \ {id} |-> tbl[i]]
Insert(tbl, id, row) == [i \in DOMAIN tbl \cup {id} |-> IF i = id THEN row ELSE tbl[i]]

\* ------------------------------------------------------------------ Init

\* The tables exist and are empty; config holds what init seeds
\* (storage.py:69-72).  The CREATE TABLE jobs statement of SCHEMA_STMTS ends
\* its column list with a comma (storage.py:28), which SQLite rejects, so the
\* jobs table is not created by init as written; the store is taken with its
\* four tables in place, their columns being the declared ones.
\* SCHEMA_STMTS declares no started_at / duration_ms column for jobs, while
\* worker.py:62-65 writes them: timing_cols = FALSE is the declared table,
\* TRUE a jobs table that was given those two columns.
Init ==
    /\ jobs = EmptyTable
    /\ dlq = EmptyTable
    /\ config = [backoff_base |-> 2, default_max_retries |-> 3]
    /\ timing_cols \in BOOLEAN
    /\ now = 0
    /\ pc = [w \in Workers |-> "loop"]
    /\ job = [w \in Workers |-> NoJob]
    /\ rc = [w \in Workers |-> "none"]
    /\ base = [w \in Workers |-> 0]
    /\ ctx = [w \in Workers |-> "none"]
    /\ should_exit = [w \in Workers |-> FALSE]
    /\ adm = AdmIdle
    /\ runs = EmptyTable

Tick ==
    /\ now < MaxTime
    /\ now' = now + 1
    /\ UNCHANGED <<jobs, dlq, config, timing_cols, pc, job, rc, base, ctx, adm, runs, should_exit>>

\* ------------------------------------------------- the CLI (cli.py:22-97)

\* enqueue: max_retries from the job spec, or (mr = NULL: omitted) from config
\* key default_max_retries; one INSERT INTO jobs. The primary key of jobs
\* rejects an id the jobs table already holds (IntegrityError) and nothing
\* is written; the dlq table is not consulted.             (storage.py:93-104)
enqueue(id, cmd, mr) ==
    /\ IF id \in DOMAIN jobs
       THEN UNCHANGED <<jobs, runs>>
       ELSE /\ jobs' = Insert(jobs, id,
                  NewRow(cmd, IF mr = NULL THEN config.default_max_retries ELSE mr, now))
            /\ runs' = Insert(runs, id, 0)
    /\ UNCHANGED <<dlq, config, timing_cols, now, pc, job, rc, base, ctx, adm, should_exit>>

\* set_config: upsert of one key                            (storage.py:82-88)
set_config(key, value) ==
    /\ config' = [config EXCEPT ![key] = value]
    /\ UNCHANGED <<jobs, dlq, timing_cols, now, pc, job, rc, base, ctx, adm, runs, should_exit>>

\* dlq_retry, first statement: SELECT * FROM dlq WHERE id=?; no row raises
\* ValueError and the command ends.                       (storage.py:209-215)
dlq_retry_select(id) ==
    /\ adm.pc = "idle"
    /\ adm' = IF id \in DOMAIN dlq
              THEN [pc |-> "delete", id |-> id, command |-> dlq[id].command,
                    max_retries |-> dlq[id].max_retries]
              ELSE AdmIdle
    /\ UNCHANGED <<jobs, dlq, config, timing_cols, now, pc, job, rc, base, ctx, runs, should_exit>>

\* dlq_retry, second statement: now = _stamp(), then DELETE FROM dlq WHERE
\* id=?                                                  (storage.py:217-218)
dlq_retry_delete ==
    /\ adm.pc = "delete"
    /\ dlq' = Delete(dlq, adm.id)
    /\ adm' = [pc |-> "insert", id |-> adm.id, command |-> adm.command,
               max_retries |-> adm.max_retries, now |-> now]
    /\ UNCHANGED <<jobs, config, timing_cols, now, pc, job, rc, base, ctx, runs, should_exit>>

\* dlq_retry, third statement: INSERT INTO jobs, created_at being the
\* stamp read before the DELETE; the primary key raises IntegrityError when
\* jobs holds the id again.                               (storage.py:219-223)
dlq_retry_insert ==
    /\ adm.pc = "insert"
    /\ IF adm.id \in DOMAIN jobs
       THEN UNCHANGED <<jobs, runs>>
       ELSE /\ jobs' = Insert(jobs, adm.id, NewRow(adm.command, adm.max_retries, adm.now))
            /\ runs' = Insert(runs, adm.id, 0)
    /\ adm' = AdmIdle
    /\ UNCHANGED <<dlq, config, timing_cols, now, pc, job, rc, base, ctx, should_exit>>

\* --------------------------------------- the worker loop (worker.py:42-89)

\* what a worker leaves behind when it goes back to the top of the loop
Release(w, to) ==
    /\ pc' = [pc EXCEPT ![w] = to]
    /\ job' = [job EXCEPT ![w] = NoJob]
    /\ rc' = [rc EXCEPT ![w] = "none"]
    /\ base' = [base EXCEPT ![w] = 0]
    /\ ctx' = [ctx EXCEPT ![w] = "none"]

\* The top of the loop with the flag down (worker.py:43), then
\* claim_next_job, the transaction: BEGIN IMMEDIATE; SELECT the first
\* eligible id; none: COMMIT and return None (the loop sleeps and comes
\* back); else UPDATE .. SET state='processing' WHERE id=? AND
\* state!='processing'; COMMIT.  now = _stamp() is read as the transaction
\* starts.                                               (storage.py:121-145)
claim_next_job(w) ==
    /\ pc[w] = "loop"
    /\ ~should_exit[w]
    /\ IF FirstEligible(now) = {}
       THEN UNCHANGED <<jobs, pc, job>>
       ELSE \E id \in FirstEligible(now) :
              /\ jobs' = [jobs EXCEPT ![id].state = "processing"]
              /\ pc' = [pc EXCEPT ![w] = "fetch"]
              /\ job' = [job EXCEPT ![w] = [id |-> id]]
    /\ UNCHANGED <<dlq, config, timing_cols, now, rc, base, ctx, adm, runs, should_exit>>

\* claim_next_job, after the COMMIT: SELECT * FROM jobs WHERE id=?; the dict
\* of the row, or None when the row is gone (the loop sleeps and comes back).
\* The worker reads id, command, attempts and max_retries of it.
\*                                        (storage.py:147-150, worker.py:48-51)
claim_fetch(w) ==
    /\ pc[w] = "fetch"
    /\ IF job[w].id \in DOMAIN jobs
       THEN /\ job' = [job EXCEPT ![w] =
                         [id |-> job[w].id,
                          command |-> jobs[job[w].id].command,
                          attempts |-> jobs[job[w].id].attempts,
                          max_retries |-> jobs[job[w].id].max_retries]]
            /\ pc' = [pc EXCEPT ![w] = "run"]
       ELSE /\ job' = [job EXCEPT ![w] = NoJob]
            /\ pc' = [pc EXCEPT ![w] = "loop"]
    /\ UNCHANGED <<jobs, dlq, config, timing_cols, now, rc, base, ctx, adm, runs, should_exit>>

\* where the try block goes after subprocess.run gave `out` and the timing
\* UPDATE ran: the UPDATE names started_at and duration_ms, and raises
\* OperationalError (caught by `except Exception`) on a jobs table without
\* them; a Runner that raised goes to the handler as well.   (worker.py:54-69)
AfterRun(out, cols) ==
    IF out = "raised" \/ ~cols THEN "except"
    ELSE IF out = "zero" THEN "success" ELSE "failure"

\* subprocess.run(job["command"]) with outcome `out`, and the timing UPDATE
\*                                                         (worker.py:56-65)
Runner(w, out) ==
    /\ pc[w] = "run"
    /\ rc' = [rc EXCEPT ![w] = out]
    /\ pc' = [pc EXCEPT ![w] = AfterRun(out, timing_cols)]
    /\ runs' = [runs EXCEPT ![job[w].id] = @ + 1]
    /\ UNCHANGED <<jobs, dlq, config, timing_cols, now, job, base, ctx, adm, should_exit>>

\* the command exits 0, exits nonzero, or subprocess.run raises
run_cmd(w) == \E out \in {"zero", "nonzero", "raised"} : Runner(w, out)

\* a command that always succeeds
run_ok(w) == Runner(w, "zero")

\* update_job_success: UPDATE jobs SET state='completed' WHERE id=?
\*                                          (worker.py:67-68, storage.py:157-158)
update_job_success(w) ==
    /\ pc[w] = "success"
    /\ jobs' = IF job[w].id \in DOMAIN jobs
               THEN [jobs EXCEPT ![job[w].id].state = "completed"]
               ELSE jobs
    /\ Release(w, "loop")
    /\ UNCHANGED <<dlq, config, timing_cols, now, adm, runs, should_exit>>

\* base = int(get_config(db, "backoff_base") or 2), then the entry of
\* update_job_failure: attempts += 1 and the test attempts > max_retries, on
\* the attempts and max_retries of the worker's dict.  In the try block
\* (from "failure") and again in the handler (from "except").
\*                                    (worker.py:70-79, 85-86, storage.py:173-176)
failure_begin(w) ==
    /\ pc[w] \in {"failure", "except"}
    /\ ctx' = [ctx EXCEPT ![w] = IF pc[w] = "failure" THEN "try" ELSE "handler"]
    /\ rc' = [rc EXCEPT ![w] = "none"]
    /\ IF Exhausted(job[w].attempts, job[w].max_retries)
       THEN /\ pc' = [pc EXCEPT ![w] = "ujf_select"]
            /\ UNCHANGED base
       ELSE /\ pc' = [pc EXCEPT ![w] = "ujf_update"]
            /\ base' = [base EXCEPT ![w] = config.backoff_base]
    /\ UNCHANGED <<jobs, dlq, config, timing_cols, now, job, adm, runs, should_exit>>

\* update_job_failure has returned ("dead" or "failed"). In the try block the
\* worker then tests job["attempts"] + 1 >= job["max_retries"] and calls
\* move_to_dlq, a name worker.py neither defines nor imports: NameError, and
\* the handler runs.  From the handler the loop goes on.    (worker.py:80-89)
Returned(w) ==
    IF ctx[w] = "try" /\ EarlyDlq(job[w])
    THEN /\ pc' = [pc EXCEPT ![w] = "except"]
         /\ ctx' = [ctx EXCEPT ![w] = "none"]
         /\ base' = [base EXCEPT ![w] = 0]
         /\ UNCHANGED <<job, rc>>
    ELSE Release(w, "loop")

\* an exception inside update_job_failure: caught in the try block, fatal to
\* the worker process in the handler.                       (worker.py:83-86)
Raised(w) ==
    IF ctx[w] = "try"
    THEN /\ pc' = [pc EXCEPT ![w] = "except"]
         /\ ctx' = [ctx EXCEPT ![w] = "none"]
         /\ base' = [base EXCEPT ![w] = 0]
         /\ UNCHANGED <<job, rc>>
    ELSE Release(w, "crashed")

\* the value stored as attempts of the dead-letter entry     (storage.py:183)
DlqAttempts(attempts) == (attempts + 1) - 1

\* update_job_failure, exhausted: SELECT id, command FROM jobs WHERE id=?;
\* no row: return "dead".                                (storage.py:177-178)
ujf_select(w) ==
    /\ pc[w] = "ujf_select"
    /\ IF job[w].id \in DOMAIN jobs
       THEN /\ pc' = [pc EXCEPT ![w] = "ujf_delete"]
            /\ job' = [job EXCEPT ![w].command = jobs[job[w].id].command]
            /\ UNCHANGED <<rc, base, ctx>>
       ELSE Returned(w)
    /\ UNCHANGED <<jobs, dlq, config, timing_cols, now, adm, runs, should_exit>>

\* update_job_failure, exhausted: DELETE FROM jobs WHERE id=?  (storage.py:179)
ujf_delete(w) ==
    /\ pc[w] = "ujf_delete"
    /\ jobs' = Delete(jobs, job[w].id)
    /\ pc' = [pc EXCEPT ![w] = "ujf_insert"]
    /\ UNCHANGED <<dlq, config, timing_cols, now, job, rc, base, ctx, adm, runs, should_exit>>

\* update_job_failure, exhausted: INSERT INTO dlq; the primary key of dlq
\* raises IntegrityError when dlq holds the id.          (storage.py:180-185)
ujf_insert(w) ==
    /\ pc[w] = "ujf_insert"
    /\ IF job[w].id \in DOMAIN dlq
       THEN /\ Raised(w)
            /\ UNCHANGED dlq
       ELSE /\ dlq' = Insert(dlq, job[w].id,
                        [command |-> job[w].command,
                         attempts |-> DlqAttempts(job[w].attempts),
                         max_retries |-> job[w].max_retries,
                         last_error |-> "err"])
            /\ Returned(w)
    /\ UNCHANGED <<jobs, config, timing_cols, now, adm, runs, should_exit>>

\* update_job_failure, not exhausted: UPDATE jobs SET state='failed',
\* attempts=?, next_attempt_at=?, last_error=? WHERE id=?; return "failed".
\*                                                       (storage.py:188-197)
ujf_update(w) ==
    /\ pc[w] = "ujf_update"
    /\ jobs' = IF job[w].id \in DOMAIN jobs
               THEN [jobs EXCEPT ![job[w].id] =
                       [@ EXCEPT !.state = "failed",
                                 !.attempts = job[w].attempts + 1,
                                 !.next_attempt_at =
                                     NextAttemptAt(now, base[w], job[w].attempts + 1),
                                 !.last_error = "err"]]
               ELSE jobs
    /\ Returned(w)
    /\ UNCHANGED <<dlq, config, timing_cols, now, adm, runs, should_exit>>

\* ------------------------------------------ start-up (storage.py:63-72)

\* Does SQLite accept every statement of SCHEMA_STMTS?  CREATE TABLE IF NOT
\* EXISTS jobs ends its column list with "last_error TEXT," before the
\* closing parenthesis: the statement is rejected when it is prepared
\* (OperationalError: near ")": syntax error), whether the table exists or
\* not.                                                  (storage.py:19-29)
SchemaAccepted == FALSE

\* the two INSERTs of init, each under its SELECT 1 .. IS None test; an
\* absent key is NULL here                                (storage.py:69-72)
Seeded(cfg) ==
    [backoff_base |-> IF cfg.backoff_base = NULL THEN 2 ELSE cfg.backoff_base,
     default_max_retries |-> IF cfg.default_max_retries = NULL
                             THEN 3 ELSE cfg.default_max_retries]

\* run_worker up to its loop: init(db_path), connect, workers_register.
\* init executes SCHEMA_STMTS in order and then seeds the config; the
\* exception of a rejected statement leaves init, and run_worker with it,
\* before the seeding is reached.            (worker.py:33-37, storage.py:63-72)
worker_start(w) ==
    /\ pc[w] = "start"
    /\ IF SchemaAccepted
       THEN /\ config' = Seeded(config)
            /\ pc' = [pc EXCEPT ![w] = "loop"]
       ELSE /\ pc' = [pc EXCEPT ![w] = "crashed"]
            /\ UNCHANGED config
    /\ UNCHANGED <<jobs, dlq, timing_cols, now, job, rc, base, ctx, should_exit, adm, runs>>

\* ------------------------------------- termination (worker.py:19-25, 42-44)

\* the flag tested in the middle of an attempt as well
ExitAnywhere(w) == pc[w] \in {"loop", "run"}

\* where run_worker tests _SHOULD_EXIT: at the top of the loop only
\*                                                        (worker.py:42-44)
ExitPoint(w) == pc[w] = "loop"

\* SIGTERM or SIGINT delivered to worker process w: _trap raises the flag
\* and returns to the interrupted code.                   (worker.py:22-31)
trap(w) ==
    /\ pc[w] \notin {"exited", "crashed"}
    /\ ~should_exit[w]
    /\ should_exit' = [should_exit EXCEPT ![w] = TRUE]
    /\ UNCHANGED <<jobs, dlq, config, timing_cols, now, pc, job, rc, base, ctx, adm, runs>>

\* if _SHOULD_EXIT: break -- run_worker returns and the process ends
worker_exit(w) ==
    /\ ExitPoint(w)
    /\ should_exit[w]
    /\ pc' = [pc EXCEPT ![w] = "exited"]
    /\ UNCHANGED <<jobs, dlq, config, timing_cols, now, job, rc, base, ctx, should_exit, adm, runs>>

\* --------------------------------------- the store locked (worker.py:46-48)

\* The store stays locked by another connection for longer than the busy
\* timeout of connect (10 s): the UPDATE of workers_heartbeat, or the BEGIN
\* IMMEDIATE of claim_next_job, raises OperationalError("database is
\* locked").  Both calls stand outside the try block of the loop, so the
\* exception leaves run_worker.              (worker.py:46-48, storage.py:58, 122)
store_unavailable(w) ==
    /\ pc[w] = "loop"
    /\ ~should_exit[w]
    /\ pc' = [pc EXCEPT ![w] = "crashed"]
    /\ UNCHANGED <<jobs, dlq, config, timing_cols, now, job, rc, base, ctx, should_exit, adm, runs>>

\* ------------------------------------------------------------------ Next

Next ==
    \/ Tick
    \/ \E id \in Ids, cmd \in Commands, mr \in RetryChoices :
         enqueue(id, cmd, mr)
    \/ \E b \in BackoffBases : set_config("backoff_base", b)
    \/ \E id \in Ids : dlq_retry_select(id)
    \/ dlq_retry_delete
    \/ dlq_retry_insert
    \/ \E w \in Workers : claim_next_job(w)
    \/ \E w \in Workers : claim_fetch(w)
    \/ \E w \in Workers : run_cmd(w)
    \/ \E w \in Workers : update_job_success(w)
    \/ \E w \in Workers : failure_begin(w)
    \/ \E w \in Workers : ujf_select(w)
    \/ \E w \in Workers : ujf_delete(w)
    \/ \E w \in Workers : ujf_insert(w)
    \/ \E w \in Workers : ujf_update(w)

Spec == Init /\ [][Next]_vars

\* ------------------------------------------------- two jobs in the queue

\* Two job ids enqueued at any times, with the workers' loops: the store
\* the ORDER BY of claim_next_job chooses from.  The config is left as
\* seeded and no dlq retry is issued.
TwoIds == {"j1", "j2"}

FifoNext ==
    \/ Tick
    \/ \E id \in TwoIds, cmd \in Commands, mr \in RetryChoices :
         enqueue(id, cmd, mr)
    \/ \E w \in Workers : claim_next_job(w)
    \/ \E w \in Workers : claim_fetch(w)
    \/ \E w \in Workers : run_cmd(w)
    \/ \E w \in Workers : update_job_success(w)
    \/ \E w \in Workers : failure_begin(w)
    \/ \E w \in Workers : ujf_select(w)
    \/ \E w \in Workers : ujf_delete(w)
    \/ \E w \in Workers : ujf_insert(w)
    \/ \E w \in Workers : ujf_update(w)

FifoSpec == Init /\ [][FifoNext]_vars

\* --------------------------------------- a batch of jobs that all succeed

\* Each of two ids is enqueued once, every command exits 0, the workers'
\* loops run; no signal, no admin command.
LiveNext ==
    \/ Tick
    \/ \E id \in TwoIds, cmd \in Commands, mr \in RetryChoices :
         id \notin DOMAIN runs /\ enqueue(id, cmd, mr)
    \/ \E w \in Workers : claim_next_job(w)
    \/ \E w \in Workers : claim_fetch(w)
    \/ \E w \in Workers : run_ok(w)
    \/ \E w \in Workers : update_job_success(w)
    \/ \E w \in Workers : failure_begin(w)
    \/ \E w \in Workers : ujf_select(w)
    \/ \E w \in Workers : ujf_delete(w)
    \/ \E w \in Workers : ujf_insert(w)
    \/ \E w \in Workers : ujf_update(w)

\* one step of worker process w in that setting
LiveWorkerStep(w) ==
    \/ claim_next_job(w)
    \/ claim_fetch(w)
    \/ run_ok(w)
    \/ update_job_success(w)
    \/ failure_begin(w)
    \/ ujf_select(w)
    \/ ujf_delete(w)
    \/ ujf_insert(w)
    \/ ujf_update(w)

\* Every worker process is scheduled as long as it has a statement to
\* execute and every Runner call returns (cli.py:39-43); the clock
\* advances, up to the horizon MaxTime.
LiveSpec ==
    /\ Init
    /\ [][LiveNext]_vars
    /\ WF_vars(Tick)
    /\ \A w \in Workers : WF_vars(LiveWorkerStep(w))

\* --------------------------------------------- a store that can be locked

\* The workers' loops and jobs being enqueued, the store being locked for
\* longer than the busy timeout at any iteration of a worker's loop.
FaultNext ==
    \/ Tick
    \/ \E id \in Ids, cmd \in Commands, mr \in RetryChoices :
         enqueue(id, cmd, mr)
    \/ \E w \in Workers : store_unavailable(w)
    \/ \E w \in Workers : claim_next_job(w)
    \/ \E w \in Workers : claim_fetch(w)
    \/ \E w \in Workers : run_cmd(w)
    \/ \E w \in Workers : update_job_success(w)
    \/ \E w \in Workers : failure_begin(w)
    \/ \E w \in Workers : ujf_select(w)
    \/ \E w \in Workers : ujf_delete(w)
    \/ \E w \in Workers : ujf_insert(w)
    \/ \E w \in Workers : ujf_update(w)

FaultSpec == Init /\ [][FaultNext]_vars

\* ------------------------------------------------ workers being started

\* A store that exists already: its tables in place, any content a store
\* of one job can have, either config key present or absent; the worker
\* processes about to run init.                 (cli.py:35-43, worker.py:33)
InitStore ==
    /\ jobs \in {EmptyTable} \cup
                {Insert(EmptyTable, id, NewRow(cmd, mr, 0)) :
                     id \in Ids, cmd \in Commands, mr \in RetryChoices}
    /\ dlq = EmptyTable
    /\ config \in [backoff_base : BackoffBases \cup {NULL},
                    default_max_retries : RetryChoices \cup {NULL}]
    /\ timing_cols \in BOOLEAN
    /\ now = 0
    /\ pc = [w \in Workers |-> "start"]
    /\ job = [w \in Workers |-> NoJob]
    /\ rc = [w \in Workers |-> "none"]
    /\ base = [w \in Workers |-> 0]
    /\ ctx = [w \in Workers |-> "none"]
    /\ should_exit = [w \in Workers |-> FALSE]
    /\ adm = AdmIdle
    /\ runs = [id \in DOMAIN jobs |-> 0]

\* Every CLI command calls init before anything else (cli.py:23, 36, 62,
\* 68, 74, 80, 87, 94) and ends there, so that the worker processes'
\* start-up is all that moves.
StartNext == \E w \in Workers : worker_start(w)

StartSpec == InitStore /\ [][StartNext]_vars

\* ------------------------------------------------- workers being stopped

\* The workers' loops, jobs being enqueued, and termination signals
\* delivered to the worker processes at any moment.
SignalNext ==
    \/ Tick
    \/ \E id \in Ids, cmd \in Commands, mr \in RetryChoices :
         enqueue(id, cmd, mr)
    \/ \E w \in Workers : trap(w)
    \/ \E w \in Workers : worker_exit(w)
    \/ \E w \in Workers : claim_next_job(w)
    \/ \E w \in Workers : claim_fetch(w)
    \/ \E w \in Workers : run_cmd(w)
    \/ \E w \in Workers : update_job_success(w)
    \/ \E w \in Workers : failure_begin(w)
    \/ \E w \in Workers : ujf_select(w)
    \/ \E w \in Workers : ujf_delete(w)
    \/ \E w \in Workers : ujf_insert(w)
    \/ \E w \in Workers : ujf_update(w)

\* one step of worker process w, whichever statement it is at
WorkerStep(w) ==
    \/ worker_exit(w)
    \/ claim_next_job(w)
    \/ claim_fetch(w)
    \/ run_cmd(w)
    \/ update_job_success(w)
    \/ failure_begin(w)
    \/ ujf_select(w)
    \/ ujf_delete(w)
    \/ ujf_insert(w)
    \/ ujf_update(w)

\* Every worker is an operating-system process of its own
\* (cli.py:39-43): it is scheduled as long as it has a statement to
\* execute, each statement returns, and so does the Runner (the
\* assumption of the termination claim).  The clock, the enqueues and the
\* signals are under no obligation.
SignalSpec ==
    /\ Init
    /\ [][SignalNext]_vars
    /\ \A w \in Workers : WF_vars(WorkerStep(w))

\* ---------------------------------------------------------------- claims

\* worker w has claimed id and not yet run it to the end: it is between the
\* COMMIT of claim_next_job and the return of subprocess.run
Executing(w, id) == pc[w] \in {"fetch", "run"} /\ job[w].id = id

C2_Uniqueness ==
    \A id \in Ids :
        /\ ~(id \in DOMAIN jobs /\ id \in DOMAIN dlq)
        /\ (id \in DOMAIN runs => (id \in DOMAIN jobs \/ id \in DOMAIN dlq))

\* C3: an enqueue of an id that the Job table or the Dead-Letter table holds
\* changes neither table nor the config.
C3_DuplicateIdNoChange ==
    [][\A id \in Ids, cmd \in Commands, mr \in RetryChoices :
          ((id \in DOMAIN jobs \/ id \in DOMAIN dlq) /\ enqueue(id, cmd, mr))
              => UNCHANGED <<jobs, dlq, config>>]_vars

C5_ZeroExitCompletes ==
    \A w \in Workers : rc[w] = "zero" => pc[w] = "success"

\* C6: every claim takes a row that, in the state the claim transaction
\* read, was 'pending', or 'failed' with next_attempt_at NULL or <= now;
\* never a 'failed' row still cooling down, nor a 'processing' or
\* 'completed' one.
C6_ClaimOnlyEligible ==
    [][\A w \in Workers :
          (pc[w] = "loop" /\ pc'[w] = "fetch")
              => LET r == jobs[job'[w].id]
                 IN  \/ r.state = "pending"
                     \/ /\ r.state = "failed"
                        /\ (r.next_attempt_at = NULL \/ r.next_attempt_at <= now)]_vars

\* C6 witness: a worker has just claimed a job that had failed before and
\* whose next_attempt_at has been reached.
C6_Witness ==
    \E w \in Workers :
        /\ pc[w] = "fetch"
        /\ job[w].id \in DOMAIN jobs
        /\ jobs[job[w].id].state = "processing"
        /\ jobs[job[w].id].attempts >= 1
        /\ jobs[job[w].id].next_attempt_at # NULL
        /\ jobs[job[w].id].next_attempt_at <= now

\* no worker is working on id and no dlq_retry is in progress
Settled(id) == (\A w \in Workers : job[w].id # id) /\ adm = AdmIdle

\* C7: once nobody is working on a job, its attempts value (of its Job row,
\* or of its Dead-Letter entry when it has been moved) equals the number of
\* Runner invocations made for it since it was inserted.
C7_AttemptsCountRuns ==
    \A id \in Ids :
        Settled(id) =>
            /\ (id \in DOMAIN jobs /\ jobs[id].state = "completed")
                   => jobs[id].attempts = runs[id]
            /\ (id \in DOMAIN dlq /\ id \notin DOMAIN jobs)
                   => dlq[id].attempts = runs[id]

\* C8: every Dead-Letter entry has attempts = max_retries + 1.
C8_DlqAttempts ==
    \A id \in DOMAIN dlq : dlq[id].attempts = dlq[id].max_retries + 1

C11_Backoff ==
    [][\A w \in Workers :
          /\ (pc[w] \in {"failure", "except"} /\ pc'[w] = "ujf_update")
                 => base'[w] = config.backoff_base
          /\ (pc[w] = "ujf_update" /\ pc'[w] # "ujf_update"
                                   /\ job[w].id \in DOMAIN jobs)
                 => /\ job[w].id \in DOMAIN jobs'
                    /\ jobs'[job[w].id].state = "failed"
                    /\ jobs'[job[w].id].attempts = job[w].attempts + 1
                    /\ jobs'[job[w].id].next_attempt_at
                           = now + Pow(base[w], job[w].attempts + 1)]_vars

\* C11 witness: a job was stored after its second failure, read with
\* backoff_base 2: it waits 2^2 seconds from now.
C11_Witness ==
    \E id \in DOMAIN jobs :
        /\ jobs[id].state = "failed"
        /\ jobs[id].attempts = 2
        /\ jobs[id].next_attempt_at = now + 4
        /\ \E w \in Workers : pc[w] = "loop" /\ job[w] = NoJob

\* C12: FIFO: a claim never takes a job while another job with a strictly
\* older created_at is eligible at that claim; the job claimed has the
\* oldest created_at among the eligible ones.
C12_Fifo ==
    [][\A w \in Workers :
          (pc[w] = "loop" /\ pc'[w] = "fetch")
              => \A a \in DOMAIN jobs :
                    Eligible(jobs[a], now)
                        => jobs[job'[w].id].created_at <= jobs[a].created_at]_vars

\* C12 witness: j2 was enqueued strictly before j1 and has just been
\* claimed, j1 being pending: the order is by created_at, not by id.
C12_Witness ==
    \E w \in Workers :
        /\ pc[w] = "fetch" /\ job[w].id = "j2"
        /\ "j1" \in DOMAIN jobs /\ "j2" \in DOMAIN jobs
        /\ jobs["j1"].state = "pending"
        /\ jobs["j2"].created_at < jobs["j1"].created_at

\* C13: round trip: the dlq_retry of an id that Dead-Letter holds ends with
\* no Dead-Letter entry for the id and a Job row with the entry's command
\* and max_retries, 'pending', attempts 0, next_attempt_at and last_error
\* null; and a claimed job whose run exits 0 goes to update_job_success and
\* is left 'completed', with no Dead-Letter entry for its id.
C13_RoundTrip ==
    [][/\ (adm.pc = "insert" /\ adm'.pc = "idle")
            => /\ adm.id \notin DOMAIN dlq'
               /\ adm.id \in DOMAIN jobs'
               /\ jobs'[adm.id].command = adm.command
               /\ jobs'[adm.id].max_retries = adm.max_retries
               /\ jobs'[adm.id].state = "pending"
               /\ jobs'[adm.id].attempts = 0
               /\ jobs'[adm.id].next_attempt_at = NULL
               /\ jobs'[adm.id].last_error = "NULL"
       /\ \A w \in Workers :
            /\ (pc[w] = "run" /\ rc'[w] = "zero") => pc'[w] = "success"
            /\ (pc[w] = "success" /\ pc'[w] = "loop")
                   => /\ job[w].id \in DOMAIN jobs'
                      /\ jobs'[job[w].id].state = "completed"
                      /\ job[w].id \notin DOMAIN dlq']_vars

\* C14: dlq_retry is atomic: while a dlq_retry is under way no state shows
\* its id in neither table (the entry deleted, the job not inserted), and a
\* dlq_retry whose INSERT INTO jobs is rejected leaves the Job table and
\* the Dead-Letter entry as they were when it read the entry.
C14_DlqRetryAtomic ==
    [][/\ adm.pc # "idle"
            => (adm.id \in DOMAIN dlq \/ adm.id \in DOMAIN jobs)
       /\ (adm.pc = "insert" /\ adm'.pc = "idle" /\ adm.id \in DOMAIN jobs)
            => /\ jobs' = jobs
               /\ adm.id \in DOMAIN dlq'
               /\ dlq'[adm.id].command = adm.command
               /\ dlq'[adm.id].max_retries = adm.max_retries]_vars

\* the worker process has ended: run_worker returned, or an exception left it
Ended(w) == pc[w] \in {"exited", "crashed"}

Finished(id) ==
    \/ (id \in DOMAIN jobs /\ jobs[id].state = "completed")
    \/ id \in DOMAIN dlq

\* C16: with the workers running fairly and the clock advancing, every
\* enqueued job eventually is 'completed' or in Dead-Letter (within the
\* horizon: a 'failed' job whose next_attempt_at lies beyond MaxTime is
\* waiting, not stuck); and jobs whose commands always succeed are never
\* 'failed', never in Dead-Letter, and are run once each, so that N of them
\* end as N 'completed' after N Runner invocations.
C16_AllComplete ==
    /\ \A id \in TwoIds :
          (id \in DOMAIN runs) ~>
              \/ Finished(id)
              \/ /\ id \in DOMAIN jobs
                 /\ jobs[id].state = "failed"
                 /\ jobs[id].next_attempt_at > MaxTime
    /\ [](\A id \in TwoIds :
            /\ id \notin DOMAIN dlq
            /\ id \in DOMAIN jobs => jobs[id].state # "failed"
            /\ id \in DOMAIN runs => runs[id] <= 1)

\* C17: init is idempotent on an initialised store: run at a worker's
\* start, it returns (the worker reaches its loop), leaves the Job and
\* Dead-Letter tables unchanged, keeps every config value that is present
\* and seeds backoff_base = 2 and default_max_retries = 3 exactly where the
\* key is absent.
C17_InitIdempotent ==
    [][\A w \in Workers :
          (pc[w] = "start" /\ pc'[w] # "start")
              => /\ pc'[w] = "loop"
                 /\ jobs' = jobs /\ dlq' = dlq
                 /\ config'.backoff_base =
                        (IF config.backoff_base = NULL
                         THEN 2 ELSE config.backoff_base)
                 /\ config'.default_max_retries =
                        (IF config.default_max_retries = NULL
                         THEN 3 ELSE config.default_max_retries)]_vars

\* C18: a store failure raised in the worker loop by workers_heartbeat or
\* by claim_next_job does not terminate the worker: the failed call changes
\* no job, and the worker is at the top of its loop afterwards.
C18_StoreFailureSurvived ==
    [][\A w \in Workers :
          store_unavailable(w)
              => /\ pc'[w] = "loop"
                 /\ jobs' = jobs
                 /\ dlq' = dlq]_vars

IdBefore(a, b) == a = "j1" /\ b = "j2"

\* C20: among eligible jobs of equal created_at a claim takes the one with
\* the least id: no eligible job with the same created_at and a smaller id
\* is passed over.
C20_TieById ==
    [][\A w \in Workers :
          (pc[w] = "loop" /\ pc'[w] = "fetch")
              => \A a \in DOMAIN jobs :
                    (Eligible(jobs[a], now)
                       /\ jobs[a].created_at = jobs[job'[w].id].created_at)
                        => ~IdBefore(a, job'[w].id)]_vars

====
